---- MODULE Spec2Model ----
(***************************************************************************)
(* The e-paper image codec of Smart_Dashboard_Server:                      *)
(*   Server/utils/png_to_epaper_converter.py  (EpaperColorConverter)       *)
(*   Server/utils/epaper_visualizer.py        (EpaperVisualizer)           *)
(*                                                                         *)
(* Two specifications share the operators below.                           *)
(*   Spec     follows every operation at the real resolution table.  A     *)
(*            raster of that size has up to 384000 pixels, so Spec follows *)
(*            sizes, flags, counters, results and files' lengths; pixel    *)
(*            content is followed only where a file is given by a short    *)
(*            repeating cell of bytes.                                     *)
(*   SpecPix  follows the same operations pixel by pixel, with the class   *)
(*            attribute SUPPORTED_RESOLUTIONS set to MiniResolutions.      *)
(*                                                                         *)
(* Colours: an RGB triple <<r, g, b>>.  Raster: [w, h, px], px[y+1][x+1]   *)
(* the pixel of row y, column x (numpy's img_array[y, x]); px = <<>> where *)
(* the content is not followed.  File of bytes: [size, cell], byte i       *)
(* (from 0) being cell[(i % Len(cell)) + 1]; cell = <<>> where the content *)
(* is not followed.                                                        *)
(***************************************************************************)
EXTENDS Integers, Sequences, FiniteSets, TLC

\* ------------------------------------------------------------------------
\* Class attributes
\* ------------------------------------------------------------------------

\* PALETTE[k + 1] is the colour of palette index k
PALETTE ==
  << <<0, 0, 0>>, <<255, 255, 255>>, <<67, 138, 28>>, <<100, 64, 255>>,
     <<191, 0, 0>>, <<255, 243, 56>>, <<232, 126, 0>>, <<194, 164, 244>> >>

\* the decoder's table with Black and White exchanged
VISUALIZER_PALETTE_Swapped ==
  << <<255, 255, 255>>, <<0, 0, 0>>, <<67, 138, 28>>, <<100, 64, 255>>,
     <<191, 0, 0>>, <<255, 243, 56>>, <<232, 126, 0>>, <<194, 164, 244>> >>

\* the decoder's own copy of the table
VISUALIZER_PALETTE ==
  << <<0, 0, 0>>, <<255, 255, 255>>, <<67, 138, 28>>, <<100, 64, 255>>,
     <<191, 0, 0>>, <<255, 243, 56>>, <<232, 126, 0>>, <<194, 164, 244>> >>

SUPPORTED_RESOLUTIONS == << <<800, 480>>, <<640, 400>>, <<600, 448>> >>

\* the table SpecPix runs the classes with: landscape, even widths, distinct
\* widths, no width equal to a height, distinct (W*H) \div 2, as in the real table
MiniResolutions == << <<4, 2>>, <<6, 3>> >>

\* Python's None where the code returns it in place of a number
None == -1

\* ------------------------------------------------------------------------
\* find_closest_color
\* ------------------------------------------------------------------------

\* Working values of the dither are float32; the model holds them as integers
\* in units of 1/Scale.  Every value the model's rasters produce is a multiple
\* of 1/Scale of magnitude below 1024, which float32 (and the float64 of the
\* distances) represents exactly.
Scale == 16 * 16 * 16 * 16

\* Comparing squared distances.  d_k = sum over channels c of
\* (pal[k][c]*s - v[c])^2 is the squared distance of v (in units of 1/s) to
\* palette entry k, and d_i - d_j = s * sum_c D_c * E_c with D_c = p_j - p_i
\* and E_c = 2*v_c - (p_i + p_j)*s.  The sum is formed in two limbs,
\* E_c = (E_c \div s)*s + (E_c % s), to stay inside 32-bit integers.
DistD(pal, i, j, c) == pal[j][c] - pal[i][c]

DistE(pal, v, s, i, j, c) == 2 * v[c] - (pal[i][c] + pal[j][c]) * s

DistHi(pal, v, s, i, j) ==
    DistD(pal, i, j, 1) * (DistE(pal, v, s, i, j, 1) \div s)
  + DistD(pal, i, j, 2) * (DistE(pal, v, s, i, j, 2) \div s)
  + DistD(pal, i, j, 3) * (DistE(pal, v, s, i, j, 3) \div s)

DistLo(pal, v, s, i, j) ==
    DistD(pal, i, j, 1) * (DistE(pal, v, s, i, j, 1) % s)
  + DistD(pal, i, j, 2) * (DistE(pal, v, s, i, j, 2) % s)
  + DistD(pal, i, j, 3) * (DistE(pal, v, s, i, j, 3) % s)

\* the sign of hi * s + lo
LimbSign(hi, lo, s) ==
  IF hi + (lo \div s) < 0 THEN -1
  ELSE IF hi + (lo \div s) = 0 /\ lo % s = 0 THEN 0
  ELSE 1

\* the sign of d_i - d_j
DistanceCmp(pal, v, s, i, j) ==
  LimbSign(DistHi(pal, v, s, i, j), DistLo(pal, v, s, i, j), s)

\* np.argmin(distances): the first index of the minimum (0-based)
ArgMinDistance(pal, v, s) ==
  CHOOSE k \in 0..(Len(pal) - 1) :
    /\ \A j \in 0..(k - 1) : DistanceCmp(pal, v, s, k + 1, j + 1) < 0
    /\ \A j \in (k + 1)..(Len(pal) - 1) : DistanceCmp(pal, v, s, k + 1, j + 1) <= 0

\* find_closest_color looking at the first 7 entries only
find_closest_color_f_SevenColours(v) == ArgMinDistance(SubSeq(PALETTE, 1, 7), v, Scale)

\* find_closest_color of a working (float32) value in units of 1/Scale
find_closest_color_f(v) == ArgMinDistance(PALETTE, v, Scale)

\* find_closest_color returning the last index of the minimum
find_closest_color_LastMin(rgb) ==
  CHOOSE k \in 0..(Len(PALETTE) - 1) :
    /\ \A j \in 0..(k - 1) : DistanceCmp(PALETTE, rgb, 1, k + 1, j + 1) <= 0
    /\ \A j \in (k + 1)..(Len(PALETTE) - 1) : DistanceCmp(PALETTE, rgb, 1, k + 1, j + 1) < 0

\* find_closest_color with np.argmax where np.argmin belongs
find_closest_color_ArgMax(rgb) ==
  CHOOSE k \in 0..(Len(PALETTE) - 1) :
    /\ \A j \in 0..(k - 1) : DistanceCmp(PALETTE, rgb, 1, k + 1, j + 1) > 0
    /\ \A j \in (k + 1)..(Len(PALETTE) - 1) : DistanceCmp(PALETTE, rgb, 1, k + 1, j + 1) >= 0

\* find_closest_color of a uint8 triple
find_closest_color(rgb) == ArgMinDistance(PALETTE, rgb, 1)

\* ------------------------------------------------------------------------
\* Rasters
\* ------------------------------------------------------------------------

Image(w, h, px) == [w |-> w, h |-> h, px |-> px]

\* rotate_cw without expand=True: the image keeps its size (content not
\* followed)
rotate_cw_NoExpand(img) == Image(img.w, img.h, img.px)

\* img.rotate(-90, expand=True): a quarter turn clockwise (PIL's ROTATE_270);
\* the pixel of row y, column x comes from row h-1-x, column y
rotate_cw(img) ==
  Image(img.h, img.w,
        IF img.px = <<>> THEN <<>>
        ELSE [y \in 1..img.w |-> [x \in 1..img.h |-> img.px[img.h + 1 - x][y]]])

\* rotate_ccw with the sign of the angle lost: a quarter turn clockwise
rotate_ccw_Clockwise(img) ==
  Image(img.h, img.w,
        IF img.px = <<>> THEN <<>>
        ELSE [y \in 1..img.w |-> [x \in 1..img.h |-> img.px[img.h + 1 - x][y]]])

\* img.rotate(90, expand=True): a quarter turn counter-clockwise (PIL's
\* ROTATE_90); the pixel of row y, column x comes from row x, column w-1-y
rotate_ccw(img) ==
  Image(img.h, img.w,
        IF img.px = <<>> THEN <<>>
        ELSE [y \in 1..img.w |-> [x \in 1..img.h |-> img.px[x][img.w + 1 - y]]])

\* img.crop((0, 0, tw, th)): the top-left tw x th box; PIL fills what lies
\* outside the image with zeros
\* crop keeping the bottom rows
crop_FromBottom(img, tw, th) ==
  Image(tw, th,
        IF img.px = <<>> THEN <<>>
        ELSE [y \in 1..th |-> [x \in 1..tw |->
               IF y + img.h - th >= 1 /\ x <= img.w THEN img.px[y + img.h - th][x]
               ELSE <<0, 0, 0>>]])

crop(img, tw, th) ==
  Image(tw, th,
        IF img.px = <<>> THEN <<>>
        ELSE [y \in 1..th |-> [x \in 1..tw |->
               IF y <= img.h /\ x <= img.w THEN img.px[y][x] ELSE <<0, 0, 0>>]])

\* len(range(start, stop, step)) for step > 0
RangeLen(start, stop, step) ==
  IF stop <= start THEN 0 ELSE (stop - start + step - 1) \div step

\* ------------------------------------------------------------------------
\* apply_floyd_steinberg_dithering
\* ------------------------------------------------------------------------

\* error * (n/16), taken channel by channel
ErrorShare(error, n) ==
  <<(error[1] * n) \div 16, (error[2] * n) \div 16, (error[3] * n) \div 16>>

AddTo(v, e) == <<v[1] + e[1], v[2] + e[2], v[3] + e[3]>>

\* dithered[ty, tx] += error * (n/16), if the guard of the statement holds
AddError(guard, ty, tx, n, error, d) ==
  IF guard THEN [d EXCEPT ![ty + 1][tx + 1] = AddTo(@, ErrorShare(error, n))]
  ELSE d

\* DistributeError with the share of the right neighbour given to the left one
DistributeError_Backwards(d, width, height, x, y, error) ==
  AddError(y + 1 < height /\ x + 1 < width, y + 1, x + 1, 1, error,
    AddError(y + 1 < height, y + 1, x, 5, error,
      AddError(y + 1 < height /\ x - 1 >= 0, y + 1, x - 1, 3, error,
        AddError(x - 1 >= 0, y, x - 1, 7, error, d))))

\* DistributeError with the shares of below-left and below exchanged
DistributeError_Swapped(d, width, height, x, y, error) ==
  AddError(y + 1 < height /\ x + 1 < width, y + 1, x + 1, 1, error,
    AddError(y + 1 < height, y + 1, x, 3, error,
      AddError(y + 1 < height /\ x - 1 >= 0, y + 1, x - 1, 5, error,
        AddError(x + 1 < width, y, x + 1, 7, error, d))))

\* The four statements that distribute the error of the pixel of row y,
\* column x, in the order of the code: right, below-left, below, below-right
DistributeError(d, width, height, x, y, error) ==
  AddError(y + 1 < height /\ x + 1 < width, y + 1, x + 1, 1, error,
    AddError(y + 1 < height, y + 1, x, 5, error,
      AddError(y + 1 < height /\ x - 1 >= 0, y + 1, x - 1, 3, error,
        AddError(x + 1 < width, y, x + 1, 7, error, d))))

\* dithered[y, x] = new_pixel; error = old_pixel - new_pixel; the distribution
SetAndDistribute(d, width, height, x, y, old_pixel, new_pixel) ==
  DistributeError([d EXCEPT ![y + 1][x + 1] = new_pixel], width, height, x, y,
                  <<old_pixel[1] - new_pixel[1], old_pixel[2] - new_pixel[2],
                    old_pixel[3] - new_pixel[3]>>)

\* np.array(self.PALETTE[closest_color_idx], dtype=np.float32)
PaletteFloat(closest_color_idx) ==
  <<PALETTE[closest_color_idx + 1][1] * Scale,
    PALETTE[closest_color_idx + 1][2] * Scale,
    PALETTE[closest_color_idx + 1][3] * Scale>>

\* One pass of the loop body for the pixel of row y, column x of the working
\* raster d (values in units of 1/Scale)
DitherPixel(d, width, height, x, y) ==
  SetAndDistribute(d, width, height, x, y, d[y + 1][x + 1],
                   PaletteFloat(find_closest_color_f(d[y + 1][x + 1])))

\* for x in range(width), from column x on, in row y.  The working raster has
\* height rows throughout; reading its length has each pass finished before
\* the next begins, as in the loop.
RECURSIVE DitherRow(_, _, _, _, _)
DitherRow(d, width, height, x, y) ==
  IF x >= width \/ Len(d) # height THEN d
  ELSE DitherRow(DitherPixel(d, width, height, x, y), width, height, x + 1, y)

\* for y in range(height), from row y on
RECURSIVE DitherRows(_, _, _, _)
DitherRows(d, width, height, y) ==
  IF y >= height \/ Len(d) # height THEN d
  ELSE DitherRows(DitherRow(d, width, height, 0, y), width, height, y + 1)

\* img_array.astype(np.float32)
ToFloat(px) == [y \in DOMAIN px |-> [x \in DOMAIN px[y] |->
                 <<px[y][x][1] * Scale, px[y][x][2] * Scale, px[y][x][3] * Scale>>]]

\* np.clip(dithered, 0, 255) followed by astype(np.uint8)
Clip(v) == (IF v < 0 THEN 0 ELSE IF v > 255 * Scale THEN 255 * Scale ELSE v) \div Scale

ClipToUint8(d) == [y \in DOMAIN d |-> [x \in DOMAIN d[y] |->
                   <<Clip(d[y][x][1]), Clip(d[y][x][2]), Clip(d[y][x][3])>>]]

apply_floyd_steinberg_dithering(img) ==
  Image(img.w, img.h,
        ClipToUint8(DitherRows(ToFloat(img.px), img.w, img.h, 0)))

\* The locals of apply_floyd_steinberg_dithering before it is called: img_array,
\* the working raster dithered (in units of 1/Scale), the pixel the loops are
\* at, the closest_color_idx of the passes made (in their order), pc ("idle",
\* "loop", "returned", "packed"), the raster returned and the buffer that
\* convert_png_to_epaper packs from it
NoDither ==
  [img_array |-> Image(None, None, <<>>), dithered |-> <<>>, x |-> None, y |-> None,
   chosen |-> <<>>, pc |-> "idle", returned |-> Image(None, None, <<>>),
   output_buffer |-> <<>>]

\* ... at the head of the loops, called on img
DitherCalled(img) ==
  [NoDither EXCEPT !.img_array = img, !.dithered = ToFloat(img.px), !.x = 0, !.y = 0,
                   !.pc = "loop"]

\* ... after the pass for the pixel of row l.y, column l.x
DitherPassed(l) ==
  [l EXCEPT !.dithered = DitherPixel(l.dithered, l.img_array.w, l.img_array.h, l.x, l.y),
            !.chosen = Append(l.chosen, find_closest_color_f(l.dithered[l.y + 1][l.x + 1])),
            !.x = IF l.x + 1 < l.img_array.w THEN l.x + 1 ELSE 0,
            !.y = IF l.x + 1 < l.img_array.w THEN l.y ELSE l.y + 1]

\* ... at the return: np.clip and astype(np.uint8)
DitherReturned(l) ==
  [l EXCEPT !.pc = "returned",
            !.returned = Image(l.img_array.w, l.img_array.h, ClipToUint8(l.dithered))]

\* ------------------------------------------------------------------------
\* EpaperColorConverter
\* ------------------------------------------------------------------------

\* validate_image_size: the loop over the table res from its i-th entry;
\* <<target_width, target_height, should_rotate>>
RECURSIVE ValidateFrom(_, _, _, _)
ValidateFrom(res, i, width, height) ==
  IF i > Len(res) THEN <<None, None, FALSE>>
  ELSE LET supported_width == res[i][1]
           supported_height == res[i][2]
       IN  IF width = supported_height /\ height = supported_width
             THEN <<supported_width, supported_height, TRUE>>
           ELSE IF width = supported_width
             THEN IF height > supported_height
                    THEN <<supported_width, supported_height, FALSE>>
                    ELSE <<width, height, FALSE>>
           ELSE ValidateFrom(res, i + 1, width, height)

validate_image_size(res, width, height) == ValidateFrom(res, 1, width, height)

\* PackIterations with the inner loop visiting every column
PackIterations_EveryColumn(target_width, target_height) ==
  RangeLen(0, target_height, 1) * RangeLen(0, target_width, 1)

\* the number of passes of the packing loops:
\* for y in range(target_height): for x in range(0, target_width, 2)
PackIterations(target_width, target_height) ==
  RangeLen(0, target_height, 1) * RangeLen(0, target_width, 2)

\* PackedByte with the nibbles exchanged: (color2 << 4) | color1
PackedByte_LowFirst(dithered, target_width, x, y) ==
  find_closest_color(dithered.px[y + 1][IF x + 1 < target_width THEN x + 2
                                          ELSE x + 1]) * 16
    + find_closest_color(dithered.px[y + 1][x + 1])

\* packed_byte = (color1 << 4) | color2 of the pass for row y, columns x and
\* x + 1; color2 is color1 again where x + 1 is past the row
PackedByte(dithered, target_width, x, y) ==
  find_closest_color(dithered.px[y + 1][x + 1]) * 16
    + find_closest_color(dithered.px[y + 1][IF x + 1 < target_width THEN x + 2
                                            ELSE x + 1])

\* output_buffer after the packing loops.  byte_index counts the passes, so the
\* k-th pass (from 0) is the one for row k \div n, column 2 * (k % n), n being
\* the passes per row, and it stores into output_buffer[k].
PackBuffer(dithered, target_width, target_height, buffer_size) ==
  LET n == RangeLen(0, target_width, 2)
  IN  [i \in 1..buffer_size |->
         IF i <= PackIterations(target_width, target_height)
           THEN PackedByte(dithered, target_width, 2 * ((i - 1) % n), (i - 1) \div n)
           ELSE 0]

NoFile == [size |-> None, cell |-> <<>>]

\* No file at any path
NoDisk == <<>>

\* A path is the sequence of its characters; None is the empty one
NoChars == <<>>

\* The paths of a call that has not been made
NoPaths ==
  [input_path |-> NoChars, output_path |-> NoChars, generate_c_file |-> FALSE,
   bin_path |-> NoChars]
NoImage == Image(None, None, <<>>)

\* The encoder's locals for a call that has not been made
NoEncode ==
  [target_width |-> None, target_height |-> None, should_rotate |-> FALSE,
   width |-> None, height |-> None, cropped |-> FALSE,
   dithered |-> NoImage, buffer_size |-> None, byte_index |-> None,
   output_buffer |-> <<>>, raised |-> FALSE, error |-> "none",
   wrote_bin |-> FALSE, wrote_c |-> FALSE, result |-> "not called"]

\* convert_png_to_epaper from the packing loops on.  buffer_size is
\* (target_width * target_height) // 2; output_buffer[byte_index] = packed_byte
\* raises IndexError once byte_index reaches len(output_buffer), which the
\* except clause turns into the result None before any file is opened.
EncodePacked(v, width, height, dithered, buffer_size, passes, has_output_path, generate_c_file) ==
  [target_width |-> v[1], target_height |-> v[2], should_rotate |-> v[3],
   width |-> width, height |-> height,
   cropped |-> <<width, height>> # <<v[1], v[2]>>,
   dithered |-> dithered,
   buffer_size |-> buffer_size,
   byte_index |-> IF passes > buffer_size THEN buffer_size ELSE passes,
   output_buffer |-> IF dithered.px = <<>> THEN <<>>
                     ELSE PackBuffer(dithered, v[1], v[2], buffer_size),
   raised |-> passes > buffer_size,
   error |-> IF passes > buffer_size THEN "IndexError" ELSE "none",
   wrote_bin |-> ~(passes > buffer_size),
   wrote_c |-> ~(passes > buffer_size) /\ generate_c_file /\ has_output_path,
   result |-> IF passes > buffer_size THEN "None"
              ELSE IF generate_c_file /\ has_output_path THEN "c_code"
              ELSE "bin_path"]

\* ... from the crop on: fitted is the image after the crop, dithered after
\* apply_floyd_steinberg_dithering
EncodeFitted(v, width, height, fitted, has_output_path, generate_c_file) ==
  EncodePacked(v, width, height,
               IF fitted.px = <<>> THEN fitted
               ELSE apply_floyd_steinberg_dithering(fitted),
               (v[1] * v[2]) \div 2, PackIterations(v[1], v[2]),
               has_output_path, generate_c_file)

\* ... from the rotation on: rotated is the image after it, and width, height
\* its size
EncodeRotated(v, rotated, has_output_path, generate_c_file) ==
  EncodeFitted(v, rotated.w, rotated.h,
               IF <<rotated.w, rotated.h>> # <<v[1], v[2]>>
                 THEN crop(rotated, v[1], v[2]) ELSE rotated,
               has_output_path, generate_c_file)

\* EncodeValidated taking the image's own size as the target when the
\* validation found none
EncodeValidated_OwnSize(v, img, has_output_path, generate_c_file) ==
  EncodeRotated(IF v[1] = None THEN <<img.w, img.h, FALSE>> ELSE v,
                IF v[3] THEN rotate_cw(img) ELSE img,
                has_output_path, generate_c_file)

\* ... from the validation on: v is what validate_image_size returned
EncodeValidated(v, img, has_output_path, generate_c_file) ==
  IF v[1] = None THEN [NoEncode EXCEPT !.result = "None"]
  ELSE EncodeRotated(v, IF v[3] THEN rotate_cw(img) ELSE img,
                     has_output_path, generate_c_file)

\* convert_png_to_epaper(input_path, output_path, generate_c_file) on the image
\* img: the locals at the return, with raised (an exception reached the except
\* clause), wrote_bin / wrote_c (the files written) and the result's kind
convert_png_to_epaper(res, img, has_output_path, generate_c_file) ==
  EncodeValidated(validate_image_size(res, img.w, img.h), img,
                  has_output_path, generate_c_file)

\* The C file's text is a sequence of characters

\* the digits of the format specifications d and X
Digits == <<"0", "1", "2", "3", "4", "5", "6", "7", "8", "9", "A", "B", "C", "D", "E", "F">>

\* f"{n}" for an integer n >= 0
RECURSIVE Decimal(_)
Decimal(n) ==
  IF n < 10 THEN <<Digits[n + 1]>>
  ELSE Decimal(n \div 10) \o <<Digits[(n % 10) + 1]>>

\* f"{byte_val:02X}" with the digits in the other order
Hex02X_LowFirst(byte_val) ==
  <<Digits[(byte_val % 16) + 1], Digits[((byte_val \div 16) % 16) + 1]>>

\* f"{byte_val:02X}" for a byte
Hex02X(byte_val) ==
  <<Digits[((byte_val \div 16) % 16) + 1], Digits[(byte_val % 16) + 1]>>

\* "// 7 Color Image Data "
CommentText ==
  <<"/", "/", " ", "7", " ", "C", "o", "l", "o", "r", " ", "I", "m", "a",
    "g", "e", " ", "D", "a", "t", "a", " ">>

\* "const unsigned char Image7color["
DeclarationText ==
  <<"c", "o", "n", "s", "t", " ", "u", "n", "s", "i", "g", "n", "e", "d",
    " ", "c", "h", "a", "r", " ", "I", "m", "a", "g", "e", "7", "c", "o",
    "l", "o", "r", "[">>

\* "] = {" and the end of the line
OpenText ==
  <<"]", " ", "=", " ", "{", "\n">>

\* the end of the line, "};" and the end of the line
CloseText ==
  <<"\n", "}", ";", "\n">>

\* the text that the loop over enumerate(output_buffer) has added after its
\* first n passes
RECURSIVE CArrayBody(_, _)
CArrayBody(output_buffer, n) ==
  IF n = 0 THEN <<>>
  ELSE CArrayBody(output_buffer, n - 1)
         \o (IF (n - 1) % 16 = 0 /\ n - 1 > 0 THEN <<"\n">> ELSE <<>>)
         \o <<"0", "x">> \o Hex02X(output_buffer[n]) \o <<",">>

\* c_code; length is len(output_buffer), and the bytes of a buffer that is
\* followed by size only are left out
CCode(target_width, target_height, length, output_buffer) ==
  CommentText \o Decimal(target_width) \o <<"*">> \o Decimal(target_height) \o <<"\n">>
    \o DeclarationText \o Decimal(length) \o OpenText
    \o CArrayBody(output_buffer, Len(output_buffer))
    \o CloseText

\* the C file that does not exist
NoText == [written |-> FALSE, text |-> <<>>]

\* with open(output_path, 'w') as f: f.write(c_code)
WriteText(c_code) == [written |-> TRUE, text |-> c_code]

\* ------------------------------------------------------------------------
\* Server/png_to_epaper_converter.py and utils/file_converter.py
\* ------------------------------------------------------------------------

\* The palette of Server/png_to_epaper_converter.py
Server_PALETTE ==
  << <<0, 0, 0>>, <<255, 255, 255>>, <<67, 138, 28>>, <<100, 64, 255>>,
     <<191, 0, 0>>, <<255, 243, 56>>, <<232, 126, 0>>, <<194, 164, 244>> >>

\* A path: its directory, the name up to the last dot, and the extension
Path(dir, name, ext) == [dir |-> dir, name |-> name, ext |-> ext]

\* None where a path is expected
NoPath == Path("", "", "")

\* os.path.splitext(path)[0] + ext
WithExtension(path, ext) == [path EXCEPT !.ext = ext]

\* The locals of Server's convert_png_to_c_file for a call that has not been
\* made: caught is the exception that reached the except clause of
\* convert_png_to_epaper, returned what convert_png_to_epaper returned, error
\* the exception that left convert_png_to_c_file
NoServer ==
  [c_path |-> NoPath, bin_path |-> NoPath,
   target_width |-> None, target_height |-> None, should_rotate |-> FALSE,
   buffer_size |-> None, output_buffer |-> <<>>,
   caught |-> "none", returned |-> "not called", wrote_c |-> FALSE,
   wrote_bin |-> FALSE, error |-> "none", result |-> "not called"]

\* Server's convert_png_to_epaper(input_path, output_path) at its return, for
\* an output_path that ends in .c
Server_Returned(c_path, v, buffer_size, output_buffer, caught) ==
  [NoServer EXCEPT !.c_path = c_path,
                   !.target_width = v[1], !.target_height = v[2], !.should_rotate = v[3],
                   !.buffer_size = buffer_size, !.output_buffer = output_buffer,
                   !.caught = caught,
                   !.returned = IF caught = "none" THEN "(c_code, bytes)" ELSE "(None, None)",
                   !.wrote_c = (caught = "none")]

\* ... from the packing loops on: the closest colour of each pixel, no dithering
Server_Packed(c_path, v, fitted, buffer_size, passes, io) ==
  Server_Returned(c_path, v, buffer_size,
                  IF fitted.px = <<>> THEN <<>>
                  ELSE PackBuffer(fitted, v[1], v[2], buffer_size),
                  IF passes > buffer_size THEN "IndexError"
                  ELSE IF io = "c" THEN "OSError" ELSE "none")

\* ... from the crop on
Server_Rotated(c_path, v, rotated, io) ==
  Server_Packed(c_path, v,
                IF <<rotated.w, rotated.h>> # <<v[1], v[2]>>
                  THEN crop(rotated, v[1], v[2]) ELSE rotated,
                (v[1] * v[2]) \div 2, PackIterations(v[1], v[2]), io)

\* ... from the validation on: a size that is not supported returns the single
\* value None
Server_Validated(c_path, v, img, io) ==
  IF v[1] = None THEN [NoServer EXCEPT !.c_path = c_path, !.returned = "None"]
  ELSE Server_Rotated(c_path, v, IF v[3] THEN rotate_cw(img) ELSE img, io)

\* Server's convert_png_to_epaper(input_path, output_path)
Server_convert_png_to_epaper(res, img, c_path, io) ==
  IF img = NoImage
    THEN [NoServer EXCEPT !.c_path = c_path, !.caught = "FileNotFoundError",
                          !.returned = "(None, None)"]
  ELSE Server_Validated(c_path, validate_image_size(res, img.w, img.h), img, io)

\* Server's convert_png_to_c_file after convert_png_to_epaper returned as r
\* says: result_c, result_binary = ... raises TypeError for the single None
Server_Unpacked(r, io) ==
  IF r.returned = "None" THEN [r EXCEPT !.error = "TypeError", !.result = "raised"]
  ELSE IF r.returned = "(None, None)" THEN [r EXCEPT !.result = "False"]
  ELSE IF io = "bin"
    THEN [r EXCEPT !.bin_path = WithExtension(r.c_path, ".bin"),
                   !.error = "OSError", !.result = "raised"]
  ELSE [r EXCEPT !.bin_path = WithExtension(r.c_path, ".bin"),
                 !.wrote_bin = TRUE, !.result = "True"]

\* Server's convert_png_to_c_file(png_path, c_path)
Server_convert_png_to_c_file(res, img, png_path, c_path, io) ==
  Server_Unpacked(Server_convert_png_to_epaper(res, img,
                     IF c_path = NoPath THEN WithExtension(png_path, ".c") ELSE c_path, io),
                  io)

\* c_path of EpaperConverter.convert_png_to_epaper(png_path, output_dir)
EpaperConverter_c_path(png_path, output_dir) ==
  IF output_dir # "" THEN Path(output_dir, png_path.name, ".c")
  ELSE WithExtension(png_path, ".c")

\* The wrapper for a call that has not been made
NoWrapper == [called |-> FALSE, raised |-> FALSE, result |-> <<NoPath, NoPath>>]

\* EpaperConverter.convert_png_to_epaper without its except clause
EpaperConverter_convert_png_to_epaper_NoExcept(c_path, r) ==
  [called |-> TRUE, raised |-> r.result = "raised",
   result |-> IF r.result = "True" THEN <<c_path, WithExtension(c_path, ".bin")>>
              ELSE <<NoPath, NoPath>>]

\* EpaperConverter.convert_png_to_epaper(png_path, output_dir) after
\* convert_png_to_c_file(png_path, c_path) ended as r says
EpaperConverter_convert_png_to_epaper(c_path, r) ==
  [called |-> TRUE, raised |-> FALSE,
   result |-> IF r.result = "True" THEN <<c_path, WithExtension(c_path, ".bin")>>
              ELSE <<NoPath, NoPath>>]

\* the locals of apply_floyd_steinberg_dithering with the buffer that the
\* packing loops of convert_png_to_epaper fill from the raster returned
DitherPacked(l) ==
  [l EXCEPT !.pc = "packed",
            !.output_buffer = PackBuffer(l.returned, l.img_array.w, l.img_array.h,
                                         (l.img_array.w * l.img_array.h) \div 2)]

\* ------------------------------------------------------------------------
\* EpaperVisualizer
\* ------------------------------------------------------------------------

\* rasters of more pixels than this are followed by size only
FollowLimit == 64

\* binary_data[i]
ByteAt(file, i) == file.cell[(i % Len(file.cell)) + 1]

\* DetectFrom expecting a byte for every pixel
RECURSIVE DetectFrom_BytePerPixel(_, _, _)
DetectFrom_BytePerPixel(res, i, file_size) ==
  IF i > Len(res) THEN <<>>
  ELSE IF file_size = res[i][1] * res[i][2] THEN res[i]
       ELSE DetectFrom_BytePerPixel(res, i + 1, file_size)

\* detect_resolution: the loop over the table res from its i-th entry;
\* <<width, height>>, or <<>> for None
RECURSIVE DetectFrom(_, _, _)
DetectFrom(res, i, file_size) ==
  IF i > Len(res) THEN <<>>
  ELSE LET width == res[i][1]
           height == res[i][2]
           expected_size == (width * height) \div 2
       IN  IF file_size = expected_size THEN <<width, height>>
           ELSE DetectFrom(res, i + 1, file_size)

detect_resolution(res, file_size) == DetectFrom(res, 1, file_size)

\* a 4-bit colour index as the unpacking loop uses it: an index past the
\* palette is replaced by 0
ValidIndex(idx) == IF idx >= Len(VISUALIZER_PALETTE) THEN 0 ELSE idx

\* DecodedPixel without the break at the end of the data: the index wraps
DecodedPixel_NoBreak(file, width, x, y) ==
  LET packed_byte == ByteAt(file, y * RangeLen(0, width, 2) + (x \div 2))
  IN  IF x % 2 = 0 THEN VISUALIZER_PALETTE[ValidIndex((packed_byte \div 16) % 16) + 1]
      ELSE VISUALIZER_PALETTE[ValidIndex(packed_byte % 16) + 1]

\* DecodedPixel reading the first pixel of a byte from the low nibble
DecodedPixel_LowFirst(file, width, x, y) ==
  LET k == y * RangeLen(0, width, 2) + (x \div 2)
      idx == IF x % 2 = 0 THEN ByteAt(file, k) % 16 ELSE (ByteAt(file, k) \div 16) % 16
  IN  IF k >= file.size THEN <<0, 0, 0>> ELSE VISUALIZER_PALETTE[ValidIndex(idx) + 1]

\* DecodedPixel storing the colour index where the colour belongs
DecodedPixel_IndexStored(file, width, x, y) ==
  LET k == y * RangeLen(0, width, 2) + (x \div 2)
      idx == IF x % 2 = 0 THEN (ByteAt(file, k) \div 16) % 16 ELSE ByteAt(file, k) % 16
  IN  IF k >= file.size THEN <<0, 0, 0>> ELSE <<idx, idx, idx>>

\* img_array[y, x] after the unpacking loops.  byte_index counts the completed
\* passes and, once it reaches len(binary_data), every later pass breaks; so
\* the pass for row y, columns x and x + 1 is pass k = y * n + x \div 2 (n the
\* passes per row), it reads binary_data[k] if k < len(binary_data), and
\* otherwise the pixel keeps the zeros of np.zeros.
DecodedPixel(file, width, x, y) ==
  LET n == RangeLen(0, width, 2)
      k == y * n + (x \div 2)
      packed_byte == ByteAt(file, k)
      color1_idx == (packed_byte \div 16) % 16
      color2_idx == packed_byte % 16
  IN  IF k >= file.size THEN <<0, 0, 0>>
      ELSE IF x % 2 = 0 THEN VISUALIZER_PALETTE[ValidIndex(color1_idx) + 1]
      ELSE VISUALIZER_PALETTE[ValidIndex(color2_idx) + 1]

\* byte_index after the unpacking loops
UnpackIterations(file_size, width, height) ==
  LET passes == RangeLen(0, height, 1) * RangeLen(0, width, 2)
  IN  IF file_size < passes THEN file_size ELSE passes

NoDecode ==
  [args |-> <<None, None>>, file_size |-> None, width |-> None, height |-> None, detected |-> FALSE,
   warned |-> FALSE, byte_index |-> None, error |-> "none", result |-> "not called"]

\* convert_bin_to_png from the size check on: width and height are settled
DecodeSized(file, arg_width, arg_height, width, height) ==
  [locals |-> [args |-> <<arg_width, arg_height>>,
               file_size |-> file.size, width |-> width, height |-> height,
               detected |-> arg_width = None \/ arg_height = None,
               warned |-> file.size # (width * height) \div 2,
               byte_index |-> UnpackIterations(file.size, width, height),
               error |-> "none",
               result |-> "png_path"],
   saved |-> rotate_ccw(
     Image(width, height,
           IF file.cell = <<>> \/ width * height > FollowLimit THEN <<>>
           ELSE [y \in 1..height |-> [x \in 1..width |->
                  DecodedPixel(file, width, x - 1, y - 1)]]))]

\* DecodeDetected falling back on the first resolution of the table
DecodeDetected_Fallback(file, arg_width, arg_height, detected) ==
  IF detected = <<>>
    THEN DecodeSized(file, arg_width, arg_height,
                     SUPPORTED_RESOLUTIONS[1][1], SUPPORTED_RESOLUTIONS[1][2])
  ELSE DecodeSized(file, arg_width, arg_height, detected[1], detected[2])

\* ... from the detection on: detected is what detect_resolution returned
DecodeDetected(file, arg_width, arg_height, detected) ==
  IF detected = <<>>
    THEN [locals |-> [NoDecode EXCEPT !.args = <<arg_width, arg_height>>,
                                      !.file_size = file.size,
                                      !.result = "None"],
          saved |-> NoImage]
  ELSE DecodeSized(file, arg_width, arg_height, detected[1], detected[2])

\* convert_bin_to_png(bin_path, png_path, width, height) on the file `file`
\* (width, height: the arguments, None where not given): the locals at the
\* return, and the image saved (NoImage if none was)
convert_bin_to_png(res, file, arg_width, arg_height) ==
  IF arg_width = None \/ arg_height = None
    THEN DecodeDetected(file, arg_width, arg_height,
                        detect_resolution(res, file.size))
  ELSE DecodeSized(file, arg_width, arg_height, arg_width, arg_height)

\* how many of the first n bytes of the file carry colour index idx in the
\* nibble that `high` names
RECURSIVE CellCount(_, _, _, _)
CellCount(cell, n, idx, high) ==
  IF n = 0 THEN 0
  ELSE CellCount(cell, n - 1, idx, high)
       + (IF (IF high THEN (cell[n] \div 16) % 16 ELSE cell[n] % 16) = idx
            THEN 1 ELSE 0)

\* color_counts[idx] after the counting loop over binary_data: the cell is
\* repeated whole (size \div Len(cell)) times and then in part
ColorCount(file, idx) ==
  LET m == Len(file.cell)
      whole == file.size \div m
      part == file.size % m
  IN  IF idx >= Len(VISUALIZER_PALETTE) \/ file.size = 0 THEN 0
      ELSE whole * (CellCount(file.cell, m, idx, TRUE) + CellCount(file.cell, m, idx, FALSE))
           + CellCount(file.cell, part, idx, TRUE) + CellCount(file.cell, part, idx, FALSE)

RECURSIVE SumTo(_, _)
SumTo(f, n) == IF n = 0 THEN 0 ELSE f[n] + SumTo(f, n - 1)

NoAnalysis ==
  [file_size |-> None, resolution |-> <<>>, total_pixels |-> None,
   color_counts |-> <<>>, color_usage |-> <<>>, result |-> "not called"]

\* analyze_binary_file from the counting loop on
AnalyzeCounted(res, file, color_counts, total_pixels) ==
  [file_size |-> file.size,
   resolution |-> detect_resolution(res, file.size),
   total_pixels |-> total_pixels,
   color_counts |-> color_counts,
   color_usage |-> [i \in 1..Len(color_counts) |->
                      IF color_counts[i] > 0
                        THEN <<color_counts[i], color_counts[i] * 100, total_pixels>>
                        ELSE <<>>],
   result |-> "analysis"]

AnalyzeCounts(res, file, color_counts) ==
  AnalyzeCounted(res, file, color_counts, SumTo(color_counts, Len(color_counts)))

\* analyze_binary_file(bin_path) on the file `file`.  color_usage[idx + 1] is
\* <<>> for a colour that is not reported, else <<count, num, den>> with
\* num / den the reported percentage (count / total_pixels) * 100.
analyze_binary_file(res, file) ==
  AnalyzeCounts(res, file,
                [i \in 1..Len(VISUALIZER_PALETTE) |-> ColorCount(file, i - 1)])

\* ------------------------------------------------------------------------
\* Inputs
\* ------------------------------------------------------------------------

MaxDelta == 1
NumSeeds == 2
HotPixels == 3

Entries(res) == {res[i] : i \in DOMAIN res}

ExpectedSize(r) == (r[1] * r[2]) \div 2

TableValues(res) == {r[1] : r \in Entries(res)} \cup {r[2] : r \in Entries(res)}

\* heights below a resolution's own at which its width gives the buffer size
\* of another resolution
ShortHeights(res) ==
  UNION {{h \in 1..(r[2] - 1) :
            \E q \in Entries(res) : q # r /\ (r[1] * h) \div 2 = ExpectedSize(q)}
         : r \in Entries(res)}

\* the sizes of the images of Spec: every pairing of the numbers of the table,
\* their neighbours, 1 and the heights of ShortHeights
RealDims ==
  {1} \cup ShortHeights(SUPPORTED_RESOLUTIONS)
      \cup {v + d : v \in TableValues(SUPPORTED_RESOLUTIONS), d \in (-MaxDelta)..MaxDelta}

RealImages == {Image(w, h, <<>>) : w \in RealDims, h \in RealDims}

\* colours outside the palette
HotColours == << <<128, 128, 128>>, <<60, 130, 0>> >>

\* An image of SpecPix: every pixel has the palette colour that seed and
\* position give, except that the last HotPixels pixels the dither visits (in
\* the raster after rotation and crop) may have a colour of HotColours, as
\* hot[j] says for the j-th pixel from the end.  The quantization error then
\* passes through at most HotPixels pixels, which keeps the working values
\* multiples of 1/Scale.
PixImage(res, w, h, seed, hot) ==
  LET v == validate_image_size(res, w, h)
      n == v[1] * v[2]
      FromEnd(x, y) ==
        LET xr == IF v[3] THEN h - 1 - y ELSE x
            yr == IF v[3] THEN x ELSE y
        IN  IF v[1] = None \/ xr >= v[1] \/ yr >= v[2] THEN 0
            ELSE n - (yr * v[1] + xr)
  IN  Image(w, h,
        [y \in 1..h |-> [x \in 1..w |->
          LET j == FromEnd(x - 1, y - 1)
          IN  IF j \in 1..HotPixels /\ hot[j] # 0 THEN HotColours[hot[j]]
              ELSE PALETTE[((seed + (x - 1) + 3 * (y - 1)) % Len(PALETTE)) + 1]]])

\* the sizes of the images of SpecPix: each resolution, its portrait, a row
\* more, a row less, and a column more
PixSizes(res) ==
  UNION {{<<r[1], r[2]>>, <<r[2], r[1]>>, <<r[1], r[2] + 1>>, <<r[1], r[2] - 1>>,
          <<r[1] + 1, r[2]>>} : r \in Entries(res)}

\* an image of one palette colour
UniformImage(w, h, k) == Image(w, h, [y \in 1..h |-> [x \in 1..w |-> PALETTE[k + 1]]])

\* the uniform images: each resolution and its portrait, in each palette colour
UniformImages(res) ==
  {UniformImage(r[1], r[2], k) : r \in Entries(res), k \in 0..(Len(PALETTE) - 1)}
    \cup {UniformImage(r[2], r[1], k) : r \in Entries(res), k \in 0..(Len(PALETTE) - 1)}

PixImages ==
  {PixImage(MiniResolutions, s[1], s[2], seed, hot) :
     s \in PixSizes(MiniResolutions), seed \in 0..(NumSeeds - 1),
     hot \in [1..HotPixels -> 0..Len(HotColours)]}
    \cup UniformImages(MiniResolutions)

\* bytes of files that no encoder wrote: 0x11, 0x44, 0x8F, 0x12 0x34, ...
Cells == {<<17>>, <<68>>, <<143>>, <<18, 52>>, <<1, 35, 69, 103>>, <<7, 112, 248>>}

FileSizes(res) ==
  {0} \cup {ExpectedSize(r) + d : r \in Entries(res), d \in (-MaxDelta)..MaxDelta}

Files(res) == {[size |-> n, cell |-> c] : n \in FileSizes(res), c \in Cells}

\* the width and height arguments of convert_bin_to_png
Overrides(res) ==
  {<<None, None>>}
    \cup UNION {{<<r[1], r[2]>>, <<r[2], r[1]>>, <<r[1], None>>, <<r[1] - 1, r[2] + 1>>}
                : r \in Entries(res)}

\* ------------------------------------------------------------------------
\* State
\* ------------------------------------------------------------------------

VARIABLES
  input_image,  \* the image file at input_path (NoImage: no such file)
  bin_file,     \* the file at the .bin path (NoFile: no such file)
  bin_origin,   \* who wrote bin_file: "none", "external" or "encoder"
  enc,          \* the locals of the last convert_png_to_epaper
  dec,          \* the locals of the last convert_bin_to_png
  png_out,      \* the image file at png_path (NoImage: no such file)
  analysis,     \* what the last analyze_binary_file returned
  op,           \* the last operation
  quant,        \* a call of find_closest_color: its argument and its result
  c_file,       \* the file at the .c path (NoText: no such file)
  srv,          \* the locals of the last convert_png_to_c_file of Server
  wrapper,      \* what the last EpaperConverter.convert_png_to_epaper returned
  fs,           \* apply_floyd_steinberg_dithering: its locals at the loop's head
  disk,         \* the files written by path, for the calls that are given paths
  paths         \* input_path, output_path and bin_path of the last such call

\* A run makes the calls that the repository's callers make (map_generator.py,
\* the two modules' command lines): encode, then analyse, then decode, each at
\* most once and each optional.

vars == <<input_image, bin_file, bin_origin, enc, dec, png_out, analysis, op, quant, c_file, srv, wrapper, fs, disk, paths>>

NoQuant == [rgb |-> <<>>, idx |-> None]

InitWith(images, files) ==
  /\ \/ input_image \in images /\ bin_file = NoFile /\ bin_origin = "none"
     \/ input_image = NoImage /\ bin_file \in files /\ bin_origin = "external"
     \/ input_image = NoImage /\ bin_file = NoFile /\ bin_origin = "none"
  /\ enc = NoEncode
  /\ dec = NoDecode
  /\ png_out = NoImage
  /\ analysis = NoAnalysis
  /\ op = "none"
  /\ quant = NoQuant
  /\ c_file = NoText
  /\ srv = NoServer
  /\ wrapper = NoWrapper
  /\ fs = NoDither
  /\ disk = NoDisk
  /\ paths = NoPaths

\* How the file system answers the writes of a call: "ok", or the open of the
\* .bin file ("bin"), of the C file ("c") or of the PNG file ("png") raises
\* OSError and leaves the file as it was
WritesSucceed == {"ok"}
WritesMayFail == {"ok", "bin", "c", "png"}

\* with open(bin_path, 'wb') as f: f.write(output_buffer), appending instead
\* of replacing
WriteBinary_Append(before, buffer_size, output_buffer) ==
  IF before.size = None THEN [size |-> buffer_size, cell |-> output_buffer]
  ELSE [size |-> before.size + buffer_size, cell |-> before.cell \o output_buffer]

\* with open(bin_path, 'wb') as f: f.write(output_buffer)
WriteBinary(before, buffer_size, output_buffer) ==
  [size |-> buffer_size, cell |-> output_buffer]

\* EncodeWritten with the exception leaving convert_png_to_epaper
EncodeWritten_Surfaced(r, io) ==
  IF io = "bin" /\ r.wrote_bin
    THEN [r EXCEPT !.raised = TRUE, !.error = "OSError", !.wrote_bin = FALSE,
                   !.wrote_c = FALSE, !.result = "raised"]
  ELSE IF io = "c" /\ r.wrote_c
    THEN [r EXCEPT !.raised = TRUE, !.error = "OSError", !.wrote_c = FALSE,
                   !.result = "raised"]
  ELSE r

\* what becomes of the call that would end as r if the writes are answered as
\* io says: the exception leaves the with block and the except clause returns
\* None (the .bin file is written before the C file is opened)
EncodeWritten(r, io) ==
  IF io = "bin" /\ r.wrote_bin
    THEN [r EXCEPT !.raised = TRUE, !.error = "OSError", !.wrote_bin = FALSE,
                   !.wrote_c = FALSE, !.result = "None"]
  ELSE IF io = "c" /\ r.wrote_c
    THEN [r EXCEPT !.raised = TRUE, !.error = "OSError", !.wrote_c = FALSE,
                   !.result = "None"]
  ELSE r

\* convert_png_to_epaper(input_path, output_path, generate_c_file); without
\* the image file Image.open raises and the except clause returns None
EncodeWith(res, has_output_path, generate_c_file, io, after) ==
  /\ enc' = IF input_image = NoImage
              THEN [NoEncode EXCEPT !.raised = TRUE, !.error = "FileNotFoundError",
                                    !.result = "None"]
              ELSE EncodeWritten(convert_png_to_epaper(res, input_image, has_output_path,
                                                       generate_c_file), io)
  /\ bin_file' = IF enc'.wrote_bin
                   THEN WriteBinary(bin_file, enc'.buffer_size, enc'.output_buffer)
                   ELSE bin_file
  /\ bin_origin' = IF enc'.wrote_bin THEN "encoder" ELSE bin_origin
  /\ c_file' = IF enc'.wrote_c
                 THEN WriteText(CCode(enc'.target_width, enc'.target_height,
                                      enc'.buffer_size, enc'.output_buffer))
                 ELSE c_file
  /\ op' = after
  /\ UNCHANGED <<input_image, dec, png_out, analysis, quant, srv, wrapper, fs, disk, paths>>

EncodeCall(res, outcomes, after) ==
  \E has_output_path \in BOOLEAN, generate_c_file \in BOOLEAN, io \in outcomes :
    EncodeWith(res, has_output_path, generate_c_file, io, after)

\* the one call of a run of Spec and SpecPix
Encode(res) ==
  /\ op = "none"
  /\ EncodeCall(res, WritesSucceed, "encode")

\* a second call on the same image file
EncodeAgain(res) ==
  /\ op = "encode"
  /\ EncodeCall(res, WritesSucceed, "encode again")

\* convert_png_to_c_file(png_path, c_path, generate_c_file) of utils: c_path
\* is made from png_path if it is None and generate_c_file holds
ConvertToCFile(res, outcomes) ==
  /\ op = "none"
  /\ \E has_c_path \in BOOLEAN, generate_c_file \in BOOLEAN, io \in outcomes :
       EncodeWith(res, has_c_path \/ generate_c_file, generate_c_file, io,
                  "convert_png_to_c_file")

\* the paths of the image file
PngPaths == {Path("Maps", "Vienna_Austria", ".png"), Path("Maps", "map.v2", ".png")}

\* the c_path arguments: None or a path that ends in .c, as every caller's does
CPaths == {NoPath, Path("out", "map", ".c")}

\* the output_dir arguments: none ("") or a directory
OutputDirs == {"", "out"}

\* the files after a call of Server's convert_png_to_c_file
ServerFiles ==
  /\ c_file' = IF srv'.wrote_c
                 THEN WriteText(CCode(srv'.target_width, srv'.target_height,
                                      srv'.buffer_size, srv'.output_buffer))
                 ELSE c_file
  /\ bin_file' = IF srv'.wrote_bin
                   THEN WriteBinary(bin_file, srv'.buffer_size, srv'.output_buffer)
                   ELSE bin_file
  /\ bin_origin' = IF srv'.wrote_bin THEN "server" ELSE bin_origin

\* convert_png_to_c_file(png_path, c_path) of Server
ServerConvert(res, outcomes) ==
  \E png_path \in PngPaths, c_path \in CPaths, io \in outcomes :
    /\ op = "none"
    /\ srv' = Server_convert_png_to_c_file(res, input_image, png_path, c_path, io)
    /\ ServerFiles
    /\ op' = "server"
    /\ UNCHANGED <<input_image, enc, dec, png_out, analysis, quant, wrapper, fs, disk, paths>>

\* EpaperConverter.convert_png_to_epaper(png_path, output_dir)
Wrap(res, outcomes) ==
  \E png_path \in PngPaths, output_dir \in OutputDirs, io \in outcomes :
    /\ op = "none"
    /\ srv' = Server_convert_png_to_c_file(res, input_image, png_path,
                                           EpaperConverter_c_path(png_path, output_dir), io)
    /\ wrapper' = EpaperConverter_convert_png_to_epaper(
                    EpaperConverter_c_path(png_path, output_dir), srv')
    /\ ServerFiles
    /\ op' = "wrapper"
    /\ UNCHANGED <<input_image, enc, dec, png_out, analysis, quant, fs, disk, paths>>

\* what convert_bin_to_png does without the file: open raises and the except
\* clause returns None
DecodeNoFile(o) ==
  [locals |-> [NoDecode EXCEPT !.args = o, !.error = "FileNotFoundError",
                               !.result = "None"],
   saved |-> NoImage]

\* what becomes of the call that would end as r if img.save is answered as io
\* says
DecodeSaved(r, io) ==
  IF io = "png" /\ r.locals.result # "None"
    THEN [locals |-> [r.locals EXCEPT !.error = "OSError", !.result = "None"],
          saved |-> NoImage]
  ELSE r

\* the image file at png_path after a call that ended as r
SavedPng(r, before) == IF r.locals.result = "None" THEN before ELSE r.saved

\* convert_bin_to_png(bin_path, png_path, width, height)
DecodeCall(res, outcomes) ==
  \E o \in Overrides(res), io \in outcomes :
    /\ dec' = DecodeSaved(IF bin_file = NoFile THEN DecodeNoFile(o)
                          ELSE convert_bin_to_png(res, bin_file, o[1], o[2]), io).locals
    /\ png_out' = SavedPng(DecodeSaved(IF bin_file = NoFile THEN DecodeNoFile(o)
                                       ELSE convert_bin_to_png(res, bin_file, o[1], o[2]), io),
                           png_out)
    /\ op' = "decode"
    /\ UNCHANGED <<input_image, bin_file, bin_origin, enc, analysis, quant, c_file, srv, wrapper,
                   fs, disk, paths>>

\* the one call of a run of Spec and SpecPix
Decode(res) ==
  /\ op \in {"none", "encode", "analyze"}
  /\ DecodeCall(res, WritesSucceed)

\* analyze_binary_file(bin_path); a file whose bytes are not followed is left
\* alone
Analyze(res) ==
  /\ op \in {"none", "encode"}
  /\ bin_file = NoFile \/ bin_file.cell # <<>>
  /\ analysis' = IF bin_file = NoFile
                   \* open raises; the except clause returns None
                   THEN [NoAnalysis EXCEPT !.result = "None"]
                   ELSE analyze_binary_file(res, bin_file)
  /\ op' = "analyze"
  /\ UNCHANGED <<input_image, bin_file, bin_origin, enc, dec, png_out, quant, c_file, srv,
                 wrapper, fs, disk, paths>>

Init == InitWith(RealImages, Files(SUPPORTED_RESOLUTIONS))

Next ==
  \/ Encode(SUPPORTED_RESOLUTIONS)
  \/ Decode(SUPPORTED_RESOLUTIONS)
  \/ Analyze(SUPPORTED_RESOLUTIONS)

Spec == Init /\ [][Next]_vars

InitPix == InitWith(PixImages, Files(MiniResolutions))

NextPix ==
  \/ Encode(MiniResolutions)
  \/ Decode(MiniResolutions)
  \/ Analyze(MiniResolutions)

SpecPix == InitPix /\ [][NextPix]_vars

\* SpecServer: the convenience functions and the wrapper, on the sizes of Spec,
\* with writes that may fail

\* the image files: one of RealImages or none
InitServer == InitWith(RealImages \cup {NoImage}, {})

NextServer ==
  \/ ServerConvert(SUPPORTED_RESOLUTIONS, WritesMayFail)
  \/ Wrap(SUPPORTED_RESOLUTIONS, WritesMayFail)
  \/ ConvertToCFile(SUPPORTED_RESOLUTIONS, WritesMayFail)

SpecServer == InitServer /\ [][NextServer]_vars

\* images whose last pixels all have the same colour, and the uniform images
FewImages(res) ==
  {PixImage(res, s[1], s[2], seed, [j \in 1..HotPixels |-> c]) :
     s \in PixSizes(res), seed \in 0..(NumSeeds - 1), c \in 0..Len(HotColours)}
    \cup UniformImages(res)

\* SpecDither: apply_floyd_steinberg_dithering pass by pass, on the rasters
\* that convert_png_to_epaper gives it

\* img after the rotation and the crop of convert_png_to_epaper, v being what
\* validate_image_size returned
Fitted(v, img) ==
  IF <<(IF v[3] THEN img.h ELSE img.w), (IF v[3] THEN img.w ELSE img.h)>> # <<v[1], v[2]>>
    THEN crop(IF v[3] THEN rotate_cw(img) ELSE img, v[1], v[2])
  ELSE IF v[3] THEN rotate_cw(img) ELSE img

\* a raster of palette colours but for the pixel before the last of the row
\* before the last, which has a colour of HotColours: its error goes to four
\* neighbours and on from them, through three passes at most
InnerRaster(w, h, seed, c) ==
  Image(w, h,
        [y \in 1..h |-> [x \in 1..w |->
          IF y = h - 1 /\ x = w - 1 THEN HotColours[c]
          ELSE PALETTE[((seed + (x - 1) + 3 * (y - 1)) % Len(PALETTE)) + 1]]])

InnerRasters(res) ==
  {InnerRaster(r[1], r[2], seed, c) :
     r \in Entries(res), seed \in 0..(NumSeeds - 1), c \in 1..Len(HotColours)}

\* the rasters dithered for the images of FewImages that are accepted, and the
\* rasters of InnerRasters
DitherInputs(res) ==
  {Fitted(validate_image_size(res, img.w, img.h), img) :
     img \in {i \in FewImages(res) : validate_image_size(res, i.w, i.h)[1] # None}}
    \cup InnerRasters(res)

InitDither ==
  /\ input_image = NoImage /\ bin_file = NoFile /\ bin_origin = "none"
  /\ enc = NoEncode
  /\ dec = NoDecode
  /\ png_out = NoImage
  /\ analysis = NoAnalysis
  /\ op = "none"
  /\ quant = NoQuant
  /\ c_file = NoText
  /\ srv = NoServer
  /\ wrapper = NoWrapper
  /\ fs \in {DitherCalled(img) : img \in DitherInputs(MiniResolutions)}
  /\ disk = NoDisk
  /\ paths = NoPaths

\* one pass of the body of the inner loop
DitherStep ==
  /\ fs.pc = "loop"
  /\ fs.y < fs.img_array.h
  /\ fs' = DitherPassed(fs)
  /\ UNCHANGED <<input_image, bin_file, bin_origin, enc, dec, png_out, analysis, op, quant,
                 c_file, srv, wrapper, disk, paths>>

\* the statements after the loops
DitherReturn ==
  /\ fs.pc = "loop"
  /\ fs.y >= fs.img_array.h
  /\ fs' = DitherReturned(fs)
  /\ UNCHANGED <<input_image, bin_file, bin_origin, enc, dec, png_out, analysis, op, quant,
                 c_file, srv, wrapper, disk, paths>>

\* the packing loops of convert_png_to_epaper on the raster returned
PackDithered ==
  /\ fs.pc = "returned"
  /\ fs' = DitherPacked(fs)
  /\ UNCHANGED <<input_image, bin_file, bin_origin, enc, dec, png_out, analysis, op, quant,
                 c_file, srv, wrapper, disk, paths>>

NextDither ==
  \/ DitherStep
  \/ DitherReturn
  \/ PackDithered

SpecDither == InitDither /\ [][NextDither]_vars

\* SpecOdd: the encoder with a table of odd widths, the case that the packing
\* loops provide for with "if x + 1 < target_width ... else"

\* a table whose widths are odd
OddResolutions == << <<5, 2>>, <<3, 3>> >>

InitOdd == InitWith(FewImages(OddResolutions), {})

NextOdd == Encode(OddResolutions)

SpecOdd == InitOdd /\ [][NextOdd]_vars

\* SpecPaths: convert_png_to_epaper of utils with its path arguments, on a
\* file system that holds the image file and the directories below

\* str.rfind(ch), counted from 1, 0 if ch is not in s
rfind(s, ch) ==
  IF \A i \in 1..Len(s) : s[i] # ch THEN 0
  ELSE CHOOSE i \in 1..Len(s) : s[i] = ch /\ \A j \in (i + 1)..Len(s) : s[j] # ch

\* str.replace(old, new): every occurrence of old, from the left, the
\* occurrences not overlapping
RECURSIVE replace(_, _, _)
replace(s, old, new) ==
  IF Len(s) < Len(old) THEN s
  ELSE IF SubSeq(s, 1, Len(old)) = old
    THEN new \o replace(SubSeq(s, Len(old) + 1, Len(s)), old, new)
  ELSE <<s[1]>> \o replace(Tail(s), old, new)

\* os.path.splitext(p): the extension starts at the last dot of the last
\* component, unless only dots come before it in that component
splitext(p) ==
  LET sepIndex == rfind(p, "/")
      dotIndex == rfind(p, ".")
  IN  IF dotIndex > sepIndex /\ \E i \in (sepIndex + 1)..(dotIndex - 1) : p[i] # "."
        THEN <<SubSeq(p, 1, dotIndex - 1), SubSeq(p, dotIndex, Len(p))>>
        ELSE <<p, <<>> >>

\* os.path.dirname(p)
dirname(p) == SubSeq(p, 1, rfind(p, "/") - 1)

\* bin_path of convert_png_to_epaper, lines 188-194
BinPath(input_path, output_path) ==
  IF output_path # NoChars THEN replace(output_path, <<".", "c">>, <<".", "b", "i", "n">>)
  ELSE splitext(input_path)[1] \o <<".", "b", "i", "n">>

\* the directories that exist: the working directory, Maps and v.cache
Directories ==
  {<<>>, <<"M", "a", "p", "s">>, <<"v", ".", "c", "a", "c", "h", "e">>}

\* the input_path arguments: map.png and Maps/map.v2.png
InputPaths ==
  {<<"m", "a", "p", ".", "p", "n", "g">>,
   <<"M", "a", "p", "s", "/", "m", "a", "p", ".", "v", "2", ".", "p", "n", "g">>}

\* the output_path arguments: None, map.c, Maps/map.v2.c, st.croix.c,
\* v.cache/map.c, map.txt and Maps/map
OutputPaths ==
  {NoChars,
   <<"m", "a", "p", ".", "c">>,
   <<"M", "a", "p", "s", "/", "m", "a", "p", ".", "v", "2", ".", "c">>,
   <<"s", "t", ".", "c", "r", "o", "i", "x", ".", "c">>,
   <<"v", ".", "c", "a", "c", "h", "e", "/", "m", "a", "p", ".", "c">>,
   <<"m", "a", "p", ".", "t", "x", "t">>,
   <<"M", "a", "p", "s", "/", "m", "a", "p">>}

\* a file of the disk: what open(path, 'wb') or open(path, 'w') left in it
BinaryFile(buffer_size, output_buffer) ==
  [bytes |-> WriteBinary(NoFile, buffer_size, output_buffer), text |-> NoText]

TextFile(c_code) == [bytes |-> NoFile, text |-> WriteText(c_code)]

\* how the two opens of a call are answered: open raises FileNotFoundError
\* for a path whose directory does not exist
Opened(bin_path, output_path) ==
  IF dirname(bin_path) \notin Directories THEN "bin"
  ELSE IF dirname(output_path) \notin Directories THEN "c"
  ELSE "ok"

\* the disk after the write of the .bin file, lines 196-197
BinWritten(files, r, bin_path) ==
  IF r.wrote_bin
    THEN [p \in DOMAIN files \cup {bin_path} |->
            IF p = bin_path THEN BinaryFile(r.buffer_size, r.output_buffer) ELSE files[p]]
    ELSE files

\* the disk after the write of the C file, lines 213-214
CWritten(files, r, output_path) ==
  IF r.wrote_c
    THEN [p \in DOMAIN files \cup {output_path} |->
            IF p = output_path
              THEN TextFile(CCode(r.target_width, r.target_height, r.buffer_size,
                                  r.output_buffer))
              ELSE files[p]]
    ELSE files

\* convert_png_to_epaper(input_path, output_path, generate_c_file) on the
\* image file at input_path
EncodeAt(res) ==
  /\ op = "none"
  /\ \E input_path \in InputPaths, output_path \in OutputPaths, generate_c_file \in BOOLEAN :
       /\ paths' = [input_path |-> input_path, output_path |-> output_path,
                    generate_c_file |-> generate_c_file,
                    bin_path |-> BinPath(input_path, output_path)]
       /\ enc' = IF input_image = NoImage
                   THEN [NoEncode EXCEPT !.raised = TRUE, !.error = "FileNotFoundError",
                                         !.result = "None"]
                   ELSE EncodeWritten(convert_png_to_epaper(res, input_image,
                                                            output_path # NoChars,
                                                            generate_c_file),
                                      Opened(paths'.bin_path, output_path))
       /\ disk' = CWritten(BinWritten(disk, enc', paths'.bin_path), enc', output_path)
  /\ op' = "encode at"
  /\ UNCHANGED <<input_image, bin_file, bin_origin, dec, png_out, analysis, quant, c_file,
                 srv, wrapper, fs>>

InitPaths == InitWith(FewImages(MiniResolutions), {})

NextPaths == EncodeAt(MiniResolutions)

SpecPaths == InitPaths /\ [][NextPaths]_vars

\* SpecIO: the encoder and the decoder on the sizes of Spec, with writes that
\* may fail

EncodeMayFail(res) ==
  /\ op = "none"
  /\ EncodeCall(res, WritesMayFail, "encode")

DecodeMayFail(res) ==
  /\ op \in {"none", "encode"}
  /\ DecodeCall(res, WritesMayFail)

NextIO ==
  \/ EncodeMayFail(SUPPORTED_RESOLUTIONS)
  \/ DecodeMayFail(SUPPORTED_RESOLUTIONS)

SpecIO == Init /\ [][NextIO]_vars

\* SpecText: the two converters that write the C file, on a resolution whose
\* buffer is longer than a line of the C array

\* a table of one resolution, of 18 bytes
TextResolutions == << <<12, 3>> >>

InitText == InitWith(FewImages(TextResolutions), {})

NextText ==
  \/ Encode(TextResolutions)
  \/ ServerConvert(TextResolutions, WritesSucceed)

SpecText == InitText /\ [][NextText]_vars

\* SpecTwice: convert_png_to_epaper called twice on the same image file

TwiceImages == FewImages(MiniResolutions)

InitTwice == InitWith(TwiceImages, Files(MiniResolutions))

NextTwice ==
  \/ Encode(MiniResolutions)
  \/ EncodeAgain(MiniResolutions)

SpecTwice == InitTwice /\ [][NextTwice]_vars

\* SpecQuant: find_closest_color alone, on the palette's colours, on a grid of
\* colours and on colours at the same distance from two palette entries

GridLevels == {0, 64, 128, 191, 255}

TiedColours ==
  {<<3, 174, 177>>, <<97, 23, 99>>, <<121, 39, 117>>, <<126, 251, 138>>,
   <<162, 201, 27>>, <<243, 53, 141>>}

QuantColours ==
  {PALETTE[k] : k \in DOMAIN PALETTE} \cup TiedColours
    \cup {<<r, g, b>> : r \in GridLevels, g \in GridLevels, b \in GridLevels}

InitQuant ==
  /\ input_image = NoImage /\ bin_file = NoFile /\ bin_origin = "none"
  /\ enc = NoEncode
  /\ dec = NoDecode
  /\ png_out = NoImage
  /\ analysis = NoAnalysis
  /\ op = "none"
  /\ quant \in {[rgb |-> c, idx |-> None] : c \in QuantColours}
  /\ c_file = NoText
  /\ srv = NoServer
  /\ wrapper = NoWrapper
  /\ fs = NoDither
  /\ disk = NoDisk
  /\ paths = NoPaths

\* find_closest_color(rgb_color)
Quantize ==
  /\ quant.rgb # <<>>
  /\ quant.idx = None
  /\ quant' = [quant EXCEPT !.idx = find_closest_color(quant.rgb)]
  /\ UNCHANGED <<input_image, bin_file, bin_origin, enc, dec, png_out, analysis, op, c_file,
                 srv, wrapper, fs, disk, paths>>

NextQuant == Quantize

SpecQuant == InitQuant /\ [][NextQuant]_vars

\* ------------------------------------------------------------------------
\* Claims
\* ------------------------------------------------------------------------

PaletteColours == {PALETTE[k] : k \in DOMAIN PALETTE}

Encoded == enc.result \in {"bin_path", "c_code"}

NoOverride == dec.args[1] = None \/ dec.args[2] = None

HighNibble(b) == b \div 16
LowNibble(b) == b % 16

\* C1: in every buffer the encoder produces for a target of width W, byte i
\* holds in its high nibble the palette index of the pixel at row (2i) div W,
\* column (2i) mod W of the dithered raster, and in its low nibble the palette
\* index of the next pixel of the same row; both nibbles are in 0..7; the file
\* written is the buffer itself, (W*H)/2 bytes with nothing before them.
C1_NibbleLayout ==
  Encoded =>
    /\ bin_file = [size |-> Len(enc.output_buffer), cell |-> enc.output_buffer]
    /\ 2 * Len(enc.output_buffer) = enc.target_width * enc.target_height
    /\ \A i \in 0..(Len(enc.output_buffer) - 1) :
         LET y == (2 * i) \div enc.target_width
             x == (2 * i) % enc.target_width
             b == enc.output_buffer[i + 1]
         IN  /\ HighNibble(b) \in 0..7
             /\ LowNibble(b) \in 0..7
             /\ x + 1 < enc.target_width
             /\ PALETTE[HighNibble(b) + 1] = enc.dithered.px[y + 1][x + 1]
             /\ PALETTE[LowNibble(b) + 1] = enc.dithered.px[y + 1][x + 2]

\* C1 witness: a rotated image with a colour outside the palette was encoded
\* into a buffer with a byte of two different nibbles
C1_Witness ==
  /\ Encoded
  /\ enc.should_rotate
  /\ \E y \in 1..input_image.h, x \in 1..input_image.w :
       input_image.px[y][x] \notin PaletteColours
  /\ \E i \in DOMAIN enc.output_buffer :
       HighNibble(enc.output_buffer[i]) # LowNibble(enc.output_buffer[i])

\* C2: for every image whose size is a supported resolution (W, H), the buffer
\* has exactly (W*H)/2 bytes, the file written has that length, and the
\* packing loop ends with byte_index equal to the buffer size
C2_BufferSize ==
  (enc.result # "not called" /\ <<input_image.w, input_image.h>> \in Entries(SUPPORTED_RESOLUTIONS)) =>
    /\ Encoded
    /\ ~enc.raised
    /\ 2 * enc.buffer_size = input_image.w * input_image.h
    /\ enc.byte_index = enc.buffer_size
    /\ bin_file.size = enc.buffer_size

C2_Witness ==
  /\ Encoded
  /\ <<input_image.w, input_image.h>> = <<600, 448>>
  /\ enc.byte_index = 134400

\* C3 (as claimed): the raster that is dithered and packed always has a size
\* equal to one of the supported resolutions
C3_TargetIsSupported ==
  Encoded => <<enc.target_width, enc.target_height>> \in Entries(SUPPORTED_RESOLUTIONS)

\* C4: for every supported (W, H), an image of size (H, W) is given the target
\* (W, H) with the rotation flag; after the rotation its size is (W, H), no
\* crop is applied, and the buffer has (W*H)/2 bytes
C4_PortraitRotated ==
  (enc.result # "not called" /\ <<input_image.h, input_image.w>> \in Entries(SUPPORTED_RESOLUTIONS)) =>
    /\ Encoded
    /\ enc.should_rotate
    /\ <<enc.target_width, enc.target_height>> = <<input_image.h, input_image.w>>
    /\ <<enc.width, enc.height>> = <<enc.target_width, enc.target_height>>
    /\ ~enc.cropped
    /\ 2 * enc.buffer_size = input_image.w * input_image.h
    /\ bin_file.size = enc.buffer_size
    /\ enc.byte_index = enc.buffer_size

\* C4 witness: the 480 x 800 image gave 192000 bytes
C4_Witness ==
  /\ Encoded
  /\ <<input_image.w, input_image.h>> = <<480, 800>>
  /\ enc.should_rotate
  /\ bin_file.size = 192000

DecodedEncoderFile ==
  /\ op = "decode"
  /\ bin_origin = "encoder"
  /\ dec.result = "png_path"

White == <<255, 255, 255>>

\* C6: the three expected sizes are pairwise distinct; decoding, with no
\* override, a file whose length is (W*H)/2 for a supported (W, H) succeeds
\* with exactly that resolution; and decoding 192000 bytes of 0x11 gives
\* 800 x 480 pixels that are all white
C6_DetectResolution ==
  /\ \A r, q \in Entries(SUPPORTED_RESOLUTIONS) : ExpectedSize(r) = ExpectedSize(q) => r = q
  /\ (op = "decode" /\ NoOverride /\ bin_file # NoFile) =>
       \A r \in Entries(SUPPORTED_RESOLUTIONS) :
         bin_file.size = ExpectedSize(r) =>
           /\ dec.result = "png_path"
           /\ <<dec.width, dec.height>> = r
           /\ <<png_out.h, png_out.w>> = r
  /\ (op = "decode" /\ NoOverride /\ bin_file = [size |-> 192000, cell |-> <<17>>]) =>
       /\ <<dec.width, dec.height>> = <<800, 480>>
       /\ dec.byte_index = 192000
       /\ \A y \in 0..(dec.height - 1) : \A x \in 0..(dec.width - 1) :
            DecodedPixel(bin_file, dec.width, x, y) = White

C6_Witness ==
  /\ op = "decode"
  /\ dec.args = <<None, None>>
  /\ bin_file = [size |-> 192000, cell |-> <<17>>]
  /\ dec.result = "png_path"

\* C7: decoding, with no override, a file whose length is none of the three
\* expected sizes returns None and saves no image
C7_ResolutionUnknown ==
  (/\ op = "decode"
   /\ NoOverride
   /\ bin_file # NoFile
   /\ \A r \in Entries(SUPPORTED_RESOLUTIONS) : bin_file.size # ExpectedSize(r)) =>
    /\ dec.result = "None"
    /\ png_out = NoImage

C7_Witness ==
  /\ op = "decode"
  /\ dec.args = <<None, None>>
  /\ bin_file # NoFile
  /\ bin_file.size = 191999
  /\ dec.result = "None"

\* the pixel of row y, column x (from 0) of img_array, read from the image
\* saved after the quarter turn
Unrotated(x, y) == png_out.px[png_out.h - x][y + 1]

NibbleColour(idx) == IF idx \in 0..7 THEN VISUALIZER_PALETTE[idx + 1] ELSE <<0, 0, 0>>

C9_CountsSum ==
  (op = "analyze" /\ analysis.result = "analysis") =>
    /\ SumTo(analysis.color_counts, Len(analysis.color_counts)) = 2 * analysis.file_size
    /\ analysis.resolution # <<>> =>
         analysis.total_pixels = analysis.resolution[1] * analysis.resolution[2]
    /\ analysis.file_size > 0 =>
         /\ analysis.total_pixels > 0
         /\ SumTo([i \in DOMAIN analysis.color_usage |->
                     IF analysis.color_usage[i] = <<>> THEN 0
                     ELSE analysis.color_usage[i][2]],
                  Len(analysis.color_usage)) = 100 * analysis.total_pixels

\* C10: every pixel of the image decoded from a file the encoder wrote has one
\* of the 8 palette colours
C10_DecodedInPalette ==
  DecodedEncoderFile =>
    /\ png_out.px # <<>>
    /\ \A y \in 1..png_out.h : \A x \in 1..png_out.w :
         png_out.px[y][x] \in PaletteColours

\* C10 witness: the image given to the encoder had a colour outside the palette,
\* and the raster asked of the decoder is larger than the one encoded
C10_Witness ==
  /\ DecodedEncoderFile
  /\ \E y \in 1..input_image.h, x \in 1..input_image.w :
       input_image.px[y][x] \notin PaletteColours
  /\ dec.warned
  /\ \E y \in 1..png_out.h, x \in 1..png_out.w : png_out.px[y][x] # png_out.px[1][1]

\* C11: the 8 palette entries are pairwise different and find_closest_color
\* of the entry of index i returns i
C11_PaletteFixedPoint ==
  /\ \A i, j \in DOMAIN PALETTE : PALETTE[i] = PALETTE[j] => i = j
  /\ Len(PALETTE) = 8
  /\ quant.idx # None =>
       \A i \in 0..7 : quant.rgb = PALETTE[i + 1] => quant.idx = i

\* C11 witness: the last entry was given and 7 came back
C11_Witness ==
  /\ quant.rgb = <<194, 164, 244>>
  /\ quant.idx = 7

InputInPalette ==
  \A y \in 1..input_image.h : \A x \in 1..input_image.w :
    input_image.px[y][x] \in PaletteColours

\* C12: for an image of a supported size whose every pixel is a palette
\* colour, the dithered raster is the image, each nibble of the buffer is the
\* palette index of its pixel of the image, and if all pixels have the colour
\* of index k then every byte is 16k + k
C12_PaletteImageUnchanged ==
  (/\ Encoded
   /\ <<input_image.w, input_image.h>> = <<enc.target_width, enc.target_height>>
   /\ ~enc.should_rotate
   /\ InputInPalette) =>
    /\ enc.dithered = input_image
    /\ 2 * Len(enc.output_buffer) = input_image.w * input_image.h
    /\ \A i \in 0..(Len(enc.output_buffer) - 1) :
         LET y == (2 * i) \div input_image.w
             x == (2 * i) % input_image.w
         IN  /\ HighNibble(enc.output_buffer[i + 1]) \in 0..7
             /\ LowNibble(enc.output_buffer[i + 1]) \in 0..7
             /\ PALETTE[HighNibble(enc.output_buffer[i + 1]) + 1] = input_image.px[y + 1][x + 1]
             /\ PALETTE[LowNibble(enc.output_buffer[i + 1]) + 1] = input_image.px[y + 1][x + 2]
    /\ \A k \in 0..7 :
         (\A y \in 1..input_image.h : \A x \in 1..input_image.w :
            input_image.px[y][x] = PALETTE[k + 1]) =>
           \A i \in DOMAIN enc.output_buffer : enc.output_buffer[i] = 16 * k + k

\* C12 witness: the image of the larger resolution that is all (191,0,0) gave
\* bytes 0x44
C12_Witness ==
  /\ Encoded
  /\ input_image = UniformImage(6, 3, 4)
  /\ enc.output_buffer = <<68, 68, 68, 68, 68, 68, 68, 68, 68>>

Rejected ==
  /\ input_image # NoImage
  /\ validate_image_size(SUPPORTED_RESOLUTIONS, input_image.w, input_image.h)[1] = None

\* C14: when validate_image_size turns the image's size down, the encoder
\* returns None without an exception, has no target size, has dithered and
\* packed nothing and has written neither the .bin file nor the C file
C14_RejectionAborts ==
  (op = "encode" /\ Rejected) =>
    /\ enc.result = "None"
    /\ ~enc.raised
    /\ enc.error = "none"
    /\ enc.target_width = None
    /\ enc.target_height = None
    /\ ~enc.should_rotate
    /\ enc.dithered = NoImage
    /\ enc.buffer_size = None
    /\ enc.byte_index = None
    /\ enc.output_buffer = <<>>
    /\ ~enc.wrote_bin
    /\ ~enc.wrote_c
    /\ bin_file = NoFile

\* C14 witness: the encoder was called on an image of 799 x 480
C14_Witness ==
  /\ op = "encode"
  /\ input_image.w = 799
  /\ input_image.h = 480
  /\ Rejected
  /\ enc.result = "None"

\* C15 (as claimed): Server's convert_png_to_c_file returns a bool for every
\* image file, whatever its size and also when there is none: True if the
\* conversion succeeded and False otherwise (a failing write aside)
C15_ReturnsBool ==
  (srv.result # "not called" /\ srv.error # "OSError") =>
    /\ srv.result \in {"True", "False"}
    /\ srv.result = "True" <=> (srv.wrote_c /\ srv.wrote_bin)

\* C16 (as claimed): convert_png_to_c_file of utils returns the path of the
\* .bin file when the conversion succeeded, for every value of
\* generate_c_file, and None when it failed
C16_ReturnsBinPath ==
  op = "convert_png_to_c_file" =>
    /\ enc.result \in {"bin_path", "None"}
    /\ enc.result = "bin_path" => enc.wrote_bin

\* C17: EpaperConverter.convert_png_to_epaper never raises; when Server's
\* convert_png_to_c_file returned True it returns the .c path and the .bin
\* path at which that call wrote the C file and the buffer, and when the call
\* returned False or raised it returns (None, None)
C17_WrapperNeverRaises ==
  op = "wrapper" =>
    /\ wrapper.called
    /\ ~wrapper.raised
    /\ srv.result \in {"True", "False", "raised"}
    /\ IF srv.result = "True"
         THEN /\ wrapper.result = <<srv.c_path, srv.bin_path>>
              /\ srv.c_path.ext = ".c" /\ srv.wrote_c /\ c_file.written
              /\ srv.bin_path.ext = ".bin" /\ srv.wrote_bin
              /\ bin_file.size = srv.buffer_size
         ELSE wrapper.result = <<NoPath, NoPath>>

\* C17 witness: the wrapper was called on an image of 799 x 480, for which
\* Server's convert_png_to_c_file raises TypeError
C17_Witness ==
  /\ op = "wrapper"
  /\ input_image.w = 799
  /\ input_image.h = 480
  /\ srv.error = "TypeError"
  /\ wrapper.result = <<NoPath, NoPath>>

\* Reading the C file's text back

\* the value of a digit
DigitValue(c) == CHOOSE d \in 0..15 : Digits[d + 1] = c

\* the number written in decimal at the places i..j of text
RECURSIVE DecimalAt(_, _, _)
DecimalAt(text, i, j) ==
  IF j < i THEN 0 ELSE 10 * DecimalAt(text, i, j - 1) + DigitValue(text[j])

\* the first place of text that holds the character c
FirstPlace(text, c) ==
  CHOOSE i \in 1..Len(text) : text[i] = c /\ \A j \in 1..(i - 1) : text[j] # c

\* the width and the height that the first line states: the numbers on either
\* side of its "*", the width after the line's last space
CommentSize(text) ==
  <<DecimalAt(text,
              (CHOOSE i \in 1..FirstPlace(text, "*") :
                 /\ text[i] = " "
                 /\ \A j \in (i + 1)..FirstPlace(text, "*") : text[j] # " ") + 1,
              FirstPlace(text, "*") - 1),
    DecimalAt(text, FirstPlace(text, "*") + 1, FirstPlace(text, "\n") - 1)>>

\* the number of lines that begin with "//"
CommentLines(text) ==
  Cardinality({i \in 1..(Len(text) - 1) :
                 /\ text[i] = "/" /\ text[i + 1] = "/"
                 /\ (i = 1 \/ text[i - 1] = "\n")})

\* the length that the declaration states, between "[" and "]"
DeclaredLength(text) ==
  DecimalAt(text, FirstPlace(text, "[") + 1, FirstPlace(text, "]") - 1)

\* the places after the "{" at which a value 0x.. begins
HexPlaces(text) ==
  {i \in (FirstPlace(text, "{") + 1)..(Len(text) - 3) : text[i] = "0" /\ text[i + 1] = "x"}

\* the values of the array, in the order of the text
HexValues(text) ==
  [k \in 1..Cardinality(HexPlaces(text)) |->
     16 * DigitValue(text[(CHOOSE i \in HexPlaces(text) :
                             Cardinality({j \in HexPlaces(text) : j < i}) = k - 1) + 2])
       + DigitValue(text[(CHOOSE i \in HexPlaces(text) :
                            Cardinality({j \in HexPlaces(text) : j < i}) = k - 1) + 3])]

\* the text renders the buffer packed for a raster of target_width x
\* target_height
Renders(text, target_width, target_height, output_buffer) ==
  /\ HexValues(text) = output_buffer
  /\ DeclaredLength(text) = Len(output_buffer)
  /\ CommentSize(text) = <<target_width, target_height>>
  /\ CommentLines(text) = 1

C19_SharedPalette ==
  /\ Len(PALETTE) = 8
  /\ VISUALIZER_PALETTE = PALETTE
  /\ Server_PALETTE = PALETTE
  /\ PALETTE[1] = <<0, 0, 0>> /\ PALETTE[2] = <<255, 255, 255>>
  /\ PALETTE[3] = <<67, 138, 28>> /\ PALETTE[4] = <<100, 64, 255>>
  /\ PALETTE[5] = <<191, 0, 0>> /\ PALETTE[6] = <<255, 243, 56>>
  /\ PALETTE[7] = <<232, 126, 0>> /\ PALETTE[8] = <<194, 164, 244>>
  /\ (/\ DecodedEncoderFile
      /\ <<dec.width, dec.height>> = <<enc.target_width, enc.target_height>>) =>
       png_out = rotate_ccw(enc.dithered)

\* C19 witness: the decoder saved the image of a file the encoder wrote, in
\* which there are black and white pixels
C19_Witness ==
  /\ DecodedEncoderFile
  /\ <<dec.width, dec.height>> = <<enc.target_width, enc.target_height>>
  /\ \E y \in 1..png_out.h : \E x \in 1..png_out.w : png_out.px[y][x] = <<0, 0, 0>>
  /\ \E y \in 1..png_out.h : \E x \in 1..png_out.w : png_out.px[y][x] = <<255, 255, 255>>

\* the exceptions of a file that cannot be read or written
IOErrors == {"FileNotFoundError", "OSError"}

\* C18 (as claimed): a read or write that fails during an encode or a decode
\* reaches the caller as the exception itself
C18_IOErrorSurfaced ==
  /\ (op = "encode" /\ enc.error \in IOErrors) => enc.result = "raised"
  /\ (op = "decode" /\ dec.error \in IOErrors) => dec.result = "raised"

\* C18 (amended): a read or write that fails during an encode or a decode is
\* caught by the call's except clause, which returns None; the call is not
\* made again: the file whose write failed is left as it was, and so is every
\* file the call had yet to write
C18_IOErrorReturnsNone ==
  /\ (op = "encode" /\ enc.error \in IOErrors) =>
       /\ enc.result = "None"
       /\ enc.raised
       /\ ~enc.wrote_c /\ c_file = NoText
       /\ ~enc.wrote_bin => bin_origin # "encoder"
  /\ (op = "decode" /\ dec.error \in IOErrors) =>
       /\ dec.result = "None"
       /\ png_out = NoImage

\* C18 witness: the encoder wrote the .bin file of an 800 x 480 image and
\* could not open the C file
C18_Witness ==
  /\ op = "encode"
  /\ enc.error = "OSError"
  /\ enc.wrote_bin
  /\ bin_file.size = 192000
  /\ enc.result = "None"

\* C21 (as claimed): while apply_floyd_steinberg_dithering is in its loops,
\* every channel of every pixel of the working raster is in [0, 255], so that
\* find_closest_color is given colours of that range only
C21_WorkingRasterInRange ==
  fs.pc = "loop" =>
    \A y \in 1..fs.img_array.h : \A x \in 1..fs.img_array.w : \A c \in 1..3 :
      /\ fs.dithered[y][x][c] >= 0
      /\ fs.dithered[y][x][c] <= 255 * Scale

\* the pixel of the k-th pass (from 1) of the loops over a raster of width w:
\* <<row, column>>, from 1
PassPixel(k, w) == <<((k - 1) \div w) + 1, ((k - 1) % w) + 1>>

\* the colour of palette index idx in the units of the working raster
Scaled(idx) == <<PALETTE[idx + 1][1] * Scale, PALETTE[idx + 1][2] * Scale, PALETTE[idx + 1][3] * Scale>>

\* after the passes made so far: they were made in row-major order, each
\* pixel passed has the palette colour chosen in its pass, and the raster
\* returned has palette colours only
PassedInPalette ==
  /\ fs.pc = "loop" => Len(fs.chosen) = fs.y * fs.img_array.w + fs.x
  /\ \A k \in 1..Len(fs.chosen) :
       /\ fs.chosen[k] \in 0..7
       /\ fs.dithered[PassPixel(k, fs.img_array.w)[1]][PassPixel(k, fs.img_array.w)[2]]
            = Scaled(fs.chosen[k])
  /\ fs.pc \in {"returned", "packed"} =>
       /\ Len(fs.chosen) = fs.img_array.w * fs.img_array.h
       /\ \A y \in 1..fs.img_array.h : \A x \in 1..fs.img_array.w :
            fs.returned.px[y][x] \in PaletteColours
       /\ fs.returned = apply_floyd_steinberg_dithering(fs.img_array)

\* C23: apply_floyd_steinberg_dithering passes the pixels in row-major order;
\* a pass leaves every pixel passed before it as it was; so each pixel passed
\* keeps the palette colour chosen for it and the raster returned has each
\* pixel equal to one of the 8 palette colours
C23_DitheredInPalette ==
  /\ []PassedInPalette
  /\ [][\A k \in 1..Len(fs.chosen) :
          fs'.dithered[PassPixel(k, fs.img_array.w)[1]][PassPixel(k, fs.img_array.w)[2]]
            = fs.dithered[PassPixel(k, fs.img_array.w)[1]][PassPixel(k, fs.img_array.w)[2]]]_vars

\* C23 witness: the raster returned for a raster of several rows with a colour
\* outside the palette, which later passes follow
C23_Witness ==
  /\ fs.pc = "returned"
  /\ fs.img_array.h > 1
  /\ \E x \in 1..(fs.img_array.w - 1) :
       fs.img_array.px[fs.img_array.h][x] \notin PaletteColours
  /\ fs.returned.px # fs.img_array.px

\* the sixteenths of the error that the pass for a pixel adds to the pixel dy
\* rows below and dx columns to the right of it
Sixteenths(dy, dx) ==
  IF dy = 0 /\ dx = 1 THEN 7
  ELSE IF dy = 1 /\ dx = -1 THEN 3
  ELSE IF dy = 1 /\ dx = 0 THEN 5
  ELSE IF dy = 1 /\ dx = 1 THEN 1
  ELSE 0

\* C24: the pass for the pixel of row y, column x replaces it by the palette
\* colour chosen and adds to each other pixel of the raster the share of
\* error = (the pixel's value before the pass) - (the colour chosen) that its
\* place gives: 7/16 right, 3/16 below-left, 5/16 below, 1/16 below-right,
\* nothing elsewhere
C24_ErrorWeights ==
  [][(fs.pc = "loop" /\ fs'.pc = "loop") =>
       \A ty \in 1..fs.img_array.h : \A tx \in 1..fs.img_array.w : \A c \in 1..3 :
         IF ty = fs.y + 1 /\ tx = fs.x + 1
           THEN fs'.dithered[ty][tx][c] = PALETTE[fs'.chosen[Len(fs'.chosen)] + 1][c] * Scale
           ELSE 16 * (fs'.dithered[ty][tx][c] - fs.dithered[ty][tx][c])
                  = Sixteenths(ty - (fs.y + 1), tx - (fs.x + 1))
                      * (fs.dithered[fs.y + 1][fs.x + 1][c]
                           - PALETTE[fs'.chosen[Len(fs'.chosen)] + 1][c] * Scale)]_vars

\* C24 witness: the pass for a pixel with all four neighbours, of a colour
\* outside the palette, has been made and the four neighbours hold their shares
C24_Witness ==
  /\ fs.pc = "loop"
  /\ fs.img_array.w = 6 /\ fs.img_array.h = 3
  /\ fs.y = 1 /\ fs.x = 5
  /\ fs.img_array.px[2][5] \notin PaletteColours
  /\ fs.dithered[2][6] # ToFloat(fs.img_array.px)[2][6]
  /\ fs.dithered[3][4] # ToFloat(fs.img_array.px)[3][4]
  /\ fs.dithered[3][5] # ToFloat(fs.img_array.px)[3][5]
  /\ fs.dithered[3][6] # ToFloat(fs.img_array.px)[3][6]

\* C25: the index that the packing loops get from find_closest_color for a
\* pixel of the dithered raster is the closest_color_idx that the dithering
\* chose in its pass for that pixel: byte i of the buffer holds the indices
\* chosen in the passes 2i+1 and 2i+2
C25_SecondQuantizationSame ==
  fs.pc = "packed" =>
    /\ 2 * Len(fs.output_buffer) = Len(fs.chosen)
    /\ \A i \in 1..Len(fs.output_buffer) :
         /\ HighNibble(fs.output_buffer[i]) = fs.chosen[2 * i - 1]
         /\ LowNibble(fs.output_buffer[i]) = fs.chosen[2 * i]

\* C25 witness: the buffer packed from the dithering of a raster with a colour
\* outside the palette, in which passes chose different indices
C25_Witness ==
  /\ fs.pc = "packed"
  /\ \E y \in 1..fs.img_array.h : \E x \in 1..fs.img_array.w :
       fs.img_array.px[y][x] \notin PaletteColours
  /\ fs.returned.px # fs.img_array.px
  /\ Len(fs.output_buffer) = 9
  /\ \E i \in 1..9 : HighNibble(fs.output_buffer[i]) # LowNibble(fs.output_buffer[i])

\* the squared Euclidean distance of rgb to the palette entry of index k
SquaredDistance(rgb, k) ==
    (PALETTE[k + 1][1] - rgb[1]) * (PALETTE[k + 1][1] - rgb[1])
  + (PALETTE[k + 1][2] - rgb[2]) * (PALETTE[k + 1][2] - rgb[2])
  + (PALETTE[k + 1][3] - rgb[3]) * (PALETTE[k + 1][3] - rgb[3])

\* C26: the index that find_closest_color returns for a triple is in 0..7, no
\* palette entry is nearer to the triple (in squared Euclidean distance) than
\* the entry of that index, and every entry of a lower index is farther
C26_FirstMinimum ==
  quant.idx # None =>
    /\ quant.idx \in 0..7
    /\ \A k \in 0..7 : SquaredDistance(quant.rgb, quant.idx) <= SquaredDistance(quant.rgb, k)
    /\ \A k \in 0..(quant.idx - 1) :
         SquaredDistance(quant.rgb, k) > SquaredDistance(quant.rgb, quant.idx)

\* C26 witness: a triple that is as near to a later entry as to the entry
\* whose index came back
C26_Witness ==
  /\ quant.idx # None
  /\ quant.rgb \notin PaletteColours
  /\ \E k \in (quant.idx + 1)..7 :
       SquaredDistance(quant.rgb, k) = SquaredDistance(quant.rgb, quant.idx)

\* the resolutions of the two tables
AnyResolution == Entries(SUPPORTED_RESOLUTIONS) \cup Entries(MiniResolutions)

\* C22: for an image whose width is a supported width and whose height is
\* above that resolution's height, the target is that resolution, the image
\* is not rotated, and it is cropped to the target from its top-left corner
\* (followed on images of palette colours, which the dithering leaves as they
\* are); and for every image accepted the target is no wider and no higher
\* than the image after the rotation
C22_CropShrinks ==
  (op = "encode" /\ enc.target_width # None) =>
    /\ enc.target_width <= enc.width
    /\ enc.target_height <= enc.height
    /\ \A r \in AnyResolution :
         (input_image.w = r[1] /\ input_image.h > r[2]) =>
           /\ <<enc.target_width, enc.target_height>> = r
           /\ ~enc.should_rotate
           /\ enc.cropped
           /\ <<enc.width, enc.height>> = <<input_image.w, input_image.h>>
           /\ (enc.dithered.px # <<>> /\ InputInPalette) =>
                /\ <<enc.dithered.w, enc.dithered.h>> = r
                /\ \A y \in 1..r[2] : \A x \in 1..r[1] :
                     enc.dithered.px[y][x] = input_image.px[y][x]

\* C22 witness: an image of 4 x 3 in palette colours, whose rows differ, was
\* encoded for the target 4 x 2
C22_Witness ==
  /\ op = "encode"
  /\ Encoded
  /\ <<input_image.w, input_image.h>> = <<4, 3>>
  /\ InputInPalette
  /\ input_image.px[1] # input_image.px[3]
  /\ enc.cropped
  /\ <<enc.target_width, enc.target_height>> = <<4, 2>>

C28_DecodedAsPacked ==
  (op = "decode" /\ bin_origin = "encoder" /\ NoOverride) =>
    \/ dec.result = "None"
    \/ <<dec.width, dec.height>> = <<enc.target_width, enc.target_height>>

\* C29: for an image that is the portrait of a supported resolution and has
\* palette colours only, encoding it and decoding the file with no width and
\* height gives the image back, pixel for pixel
C29_RoundTrip ==
  (DecodedEncoderFile /\ NoOverride /\ enc.should_rotate /\ InputInPalette) =>
    /\ <<png_out.w, png_out.h>> = <<input_image.w, input_image.h>>
    /\ png_out.px = input_image.px
    /\ png_out = input_image

\* C29 witness: a portrait image of 3 x 6 with different palette colours in
\* the two halves of a byte came back from the decoder
C29_Witness ==
  /\ DecodedEncoderFile
  /\ NoOverride
  /\ enc.should_rotate
  /\ InputInPalette
  /\ <<input_image.w, input_image.h>> = <<3, 6>>
  /\ \E i \in 1..9 : HighNibble(bin_file.cell[i]) # LowNibble(bin_file.cell[i])
  /\ png_out.px[1][1] # png_out.px[2][1]

\* output_path with its final .c replaced by .bin
FinalCReplaced(output_path) ==
  IF splitext(output_path)[2] = <<".", "c">>
    THEN splitext(output_path)[1] \o <<".", "b", "i", "n">>
    ELSE output_path

\* C30: for every output_path given to convert_png_to_epaper of utils with
\* generate_c_file set, the .bin file and the C file are written to two
\* different paths, the .bin path is output_path with only its final .c
\* replaced by .bin, and after a call that succeeded the .bin file holds the
\* packed buffer
C30_BinaryBesideCArray ==
  (op = "encode at" /\ paths.generate_c_file /\ paths.output_path # NoChars) =>
    /\ paths.bin_path # paths.output_path
    /\ paths.bin_path = FinalCReplaced(paths.output_path)
    /\ enc.result = "c_code" =>
         /\ paths.bin_path \in DOMAIN disk
         /\ disk[paths.bin_path] = BinaryFile(enc.buffer_size, enc.output_buffer)

====
